---- MODULE Spec2Model ----
(***************************************************************************)
(* The in-memory key-value emulator MockKV (mockKV.ts): one process-wide   *)
(* Map<string, string> and the operations get, put, delete, list and       *)
(* getWithMetadata on it.                                                  *)
(*                                                                         *)
(* A text (a JS string) is a sequence of code points, a byte buffer a      *)
(* sequence of integers 0..255.  A JS value is a record with a field kind. *)
(***************************************************************************)
EXTENDS Integers, Sequences, FiniteSets, TLC

VARIABLES memoryStore, inflight, call, ret, last

vars == <<memoryStore, inflight, call, ret, last>>

(***************************************************************************)
(* Characters and texts                                                    *)
(***************************************************************************)

\* The code points of the characters the model uses.
CodePoints ==
  " " :> 32 @@ "\"" :> 34 @@ "," :> 44 @@ "-" :> 45 @@ "." :> 46 @@ "/" :> 47
    @@ "0" :> 48 @@ "1" :> 49 @@ "2" :> 50 @@ "3" :> 51 @@ "4" :> 52 @@ "5" :> 53
    @@ "6" :> 54 @@ "7" :> 55 @@ "8" :> 56 @@ "9" :> 57 @@ ":" :> 58 @@ "@" :> 64
    @@ "A" :> 65 @@ "B" :> 66 @@ "C" :> 67 @@ "D" :> 68 @@ "E" :> 69 @@ "F" :> 70
    @@ "G" :> 71 @@ "H" :> 72 @@ "I" :> 73 @@ "J" :> 74 @@ "K" :> 75 @@ "L" :> 76
    @@ "M" :> 77 @@ "N" :> 78 @@ "O" :> 79 @@ "P" :> 80 @@ "Q" :> 81 @@ "R" :> 82
    @@ "S" :> 83 @@ "T" :> 84 @@ "U" :> 85 @@ "V" :> 86 @@ "W" :> 87 @@ "X" :> 88
    @@ "Y" :> 89 @@ "Z" :> 90 @@ "[" :> 91 @@ "\\" :> 92 @@ "]" :> 93 @@ "_" :> 95
    @@ "a" :> 97 @@ "b" :> 98 @@ "c" :> 99 @@ "d" :> 100 @@ "e" :> 101 @@ "f" :> 102
    @@ "g" :> 103 @@ "h" :> 104 @@ "i" :> 105 @@ "j" :> 106 @@ "k" :> 107 @@ "l" :> 108
    @@ "m" :> 109 @@ "n" :> 110 @@ "o" :> 111 @@ "p" :> 112 @@ "q" :> 113 @@ "r" :> 114
    @@ "s" :> 115 @@ "t" :> 116 @@ "u" :> 117 @@ "v" :> 118 @@ "w" :> 119 @@ "x" :> 120
    @@ "y" :> 121 @@ "z" :> 122 @@ "{" :> 123 @@ "}" :> 125

\* The code point of a one-character string.
Cp(c) == CodePoints[c]

\* The text spelled by a tuple of one-character strings.
T(cs) == [i \in 1..Len(cs) |-> Cp(cs[i])]

\* String.prototype.startsWith
StartsWith(s, p) == Len(p) <= Len(s) /\ SubSeq(s, 1, Len(p)) = p

(***************************************************************************)
(* JS values                                                               *)
(***************************************************************************)

Null == [kind |-> "null"]
Undefined == [kind |-> "undefined"]
Str(t) == [kind |-> "string", text |-> t]
Num(n) == [kind |-> "number", num |-> n]
Bool(b) == [kind |-> "boolean", bool |-> b]
Arr(items) == [kind |-> "array", items |-> items]
Obj(props) == [kind |-> "object", props |-> props]
ArrayBuffer(bytes) == [kind |-> "ArrayBuffer", bytes |-> bytes]
\* A ReadableStream, by the chunks it delivers before it closes.
ReadableStream(chunks) == [kind |-> "ReadableStream", chunks |-> chunks]
\* A ReadableStream that, after its chunks, closes ("close"), fails the read
\* ("error") or stays open without another chunk ("never").
StreamEnding(chunks, end) == [kind |-> "ReadableStream", chunks |-> chunks, end |-> end]
StreamEnd(stream) == IF "end" \in DOMAIN stream THEN stream.end ELSE "close"
\* A promise that was rejected.
Rejected == [kind |-> "rejected"]

\* JS truthiness of a string: only the empty string is falsy.
Truthy(value) == Len(value) > 0

(***************************************************************************)
(* TextEncoder / TextDecoder (UTF-8)                                       *)
(***************************************************************************)

ReplacementChar == 65533
ByteOrderMark == 65279

\* TextEncoder.encode of one code point (a lone surrogate encodes as U+FFFD).
EncodeCp(c0) ==
  LET c == IF c0 >= 55296 /\ c0 <= 57343 THEN ReplacementChar ELSE c0 IN
  IF c < 128 THEN <<c>>
  ELSE IF c < 2048 THEN <<192 + (c \div 64), 128 + (c % 64)>>
  ELSE IF c < 65536 THEN
    <<224 + (c \div 4096), 128 + ((c \div 64) % 64), 128 + (c % 64)>>
  ELSE <<240 + (c \div 262144), 128 + ((c \div 4096) % 64),
         128 + ((c \div 64) % 64), 128 + (c % 64)>>

RECURSIVE Utf8Encode(_)
Utf8Encode(text) ==
  IF text = <<>> THEN <<>>
  ELSE EncodeCp(Head(text)) \o Utf8Encode(Tail(text))

\* The WHATWG UTF-8 decoder, error mode "replacement": b the bytes, i the
\* next byte, cp/needed/lower/upper the decoder's state, out the output.
RECURSIVE Utf8Run(_, _, _, _, _, _, _)
Utf8Run(b, i, cp, needed, lower, upper, out) ==
  IF i > Len(b) THEN
    IF needed # 0 THEN Append(out, ReplacementChar) ELSE out
  ELSE
    LET x == b[i] IN
    IF needed = 0 THEN
      IF x <= 127 THEN Utf8Run(b, i + 1, 0, 0, 128, 191, Append(out, x))
      ELSE IF x >= 194 /\ x <= 223 THEN
        Utf8Run(b, i + 1, x % 32, 1, 128, 191, out)
      ELSE IF x >= 224 /\ x <= 239 THEN
        Utf8Run(b, i + 1, x % 16, 2,
                IF x = 224 THEN 160 ELSE 128, IF x = 237 THEN 159 ELSE 191, out)
      ELSE IF x >= 240 /\ x <= 244 THEN
        Utf8Run(b, i + 1, x % 8, 3,
                IF x = 240 THEN 144 ELSE 128, IF x = 244 THEN 143 ELSE 191, out)
      ELSE Utf8Run(b, i + 1, 0, 0, 128, 191, Append(out, ReplacementChar))
    ELSE IF x < lower \/ x > upper THEN
      \* not a continuation byte: U+FFFD, and the byte is processed again
      Utf8Run(b, i, 0, 0, 128, 191, Append(out, ReplacementChar))
    ELSE IF needed = 1 THEN
      Utf8Run(b, i + 1, 0, 0, 128, 191, Append(out, cp * 64 + (x % 64)))
    ELSE Utf8Run(b, i + 1, cp * 64 + (x % 64), needed - 1, 128, 191, out)

\* new TextDecoder().decode(bytes): UTF-8, not fatal, a leading byte order
\* mark is dropped.
Utf8Decode(bytes) ==
  LET out == Utf8Run(bytes, 1, 0, 0, 128, 191, <<>>) IN
  IF out # <<>> /\ Head(out) = ByteOrderMark THEN Tail(out) ELSE out

(***************************************************************************)
(* JSON.parse                                                              *)
(*                                                                         *)
(* The JSON grammar over the texts of the model: white space, the three    *)
(* literals, strings without escapes, integers, arrays and objects.  No    *)
(* text of the model holds a backslash, a "." or an exponent.              *)
(***************************************************************************)

IsWs(c) == c \in {32, 9, 10, 13}
IsDigit(c) == c >= 48 /\ c <= 57

\* The first position from i on that holds no white space (Len(t) + 1 if none).
SkipWs(t, i) ==
  CHOOSE j \in i..(Len(t) + 1) :
    /\ (j = Len(t) + 1 \/ ~IsWs(t[j]))
    /\ \A k \in i..(j - 1) : IsWs(t[k])

ParseFail == [ok |-> FALSE]
ParseOk(v, n) == [ok |-> TRUE, val |-> v, next |-> n]

\* The position after the digits that start at i.
DigitsEnd(t, i) ==
  CHOOSE j \in i..(Len(t) + 1) :
    /\ (j = Len(t) + 1 \/ ~IsDigit(t[j]))
    /\ \A k \in i..(j - 1) : IsDigit(t[k])

RECURSIVE DigitsValue(_, _, _)
DigitsValue(t, i, j) ==
  IF j <= i THEN 0 ELSE DigitsValue(t, i, j - 1) * 10 + (t[j - 1] - 48)

\* number: "-"? ("0" | [1-9][0-9]*), i at its first character
ParseNumber(t, i) ==
  LET neg == t[i] = Cp("-")
      d == IF neg THEN i + 1 ELSE i
      e == IF d > Len(t) THEN d ELSE DigitsEnd(t, d)
  IN
  IF e = d THEN ParseFail
  ELSE IF t[d] = Cp("0") /\ e > d + 1 THEN ParseOk(Num(0), d + 1)
  ELSE ParseOk(Num(IF neg THEN 0 - DigitsValue(t, d, e) ELSE DigitsValue(t, d, e)), e)

\* string: i is the position after the opening quote
ParseString(t, i) ==
  IF \A k \in i..Len(t) : t[k] # Cp("\"") THEN ParseFail
  ELSE
    LET q == CHOOSE k \in i..Len(t) :
               t[k] = Cp("\"") /\ \A m \in i..(k - 1) : t[m] # Cp("\"")
    IN
    IF \E m \in i..(q - 1) : t[m] < 32 THEN ParseFail
    ELSE ParseOk(Str(SubSeq(t, i, q - 1)), q + 1)

ParseLiteral(t, i, word, v) ==
  IF i + Len(word) - 1 <= Len(t) /\ SubSeq(t, i, i + Len(word) - 1) = word
  THEN ParseOk(v, i + Len(word))
  ELSE ParseFail

\* Object.defineProperty on the object under construction: a repeated name
\* keeps the later value.
WithProp(props, name, v) ==
  [n \in DOMAIN props \cup {name} |-> IF n = name THEN v ELSE props[n]]

NoProps == [n \in {} |-> Null]

RECURSIVE ParseValue(_, _), ParseElements(_, _, _), ParseMembers(_, _, _)

ParseValue(t, i0) ==
  LET i == SkipWs(t, i0) IN
  IF i > Len(t) THEN ParseFail
  ELSE
    LET c == t[i] IN
    IF c = Cp("{") THEN
      LET j == SkipWs(t, i + 1) IN
      IF j <= Len(t) /\ t[j] = Cp("}") THEN ParseOk(Obj(NoProps), j + 1)
      ELSE ParseMembers(t, j, NoProps)
    ELSE IF c = Cp("[") THEN
      LET j == SkipWs(t, i + 1) IN
      IF j <= Len(t) /\ t[j] = Cp("]") THEN ParseOk(Arr(<<>>), j + 1)
      ELSE ParseElements(t, j, <<>>)
    ELSE IF c = Cp("\"") THEN ParseString(t, i + 1)
    ELSE IF c = Cp("-") \/ IsDigit(c) THEN ParseNumber(t, i)
    ELSE IF c = Cp("t") THEN ParseLiteral(t, i, T(<<"t", "r", "u", "e">>), Bool(TRUE))
    ELSE IF c = Cp("f") THEN
      ParseLiteral(t, i, T(<<"f", "a", "l", "s", "e">>), Bool(FALSE))
    ELSE IF c = Cp("n") THEN ParseLiteral(t, i, T(<<"n", "u", "l", "l">>), Null)
    ELSE ParseFail

\* the elements of an array after "[" or ",": value (ws) ("," | "]")
ParseElements(t, i, acc) ==
  CHOOSE result \in {
    IF ~r.ok THEN ParseFail
    ELSE
      LET j == SkipWs(t, r.next) IN
      IF j > Len(t) THEN ParseFail
      ELSE IF t[j] = Cp(",") THEN ParseElements(t, j + 1, Append(acc, r.val))
      ELSE IF t[j] = Cp("]") THEN ParseOk(Arr(Append(acc, r.val)), j + 1)
      ELSE ParseFail
    : r \in {ParseValue(t, i)}} : TRUE

\* the members of an object after "{" or ",": string (ws) ":" value (ws) ("," | "}")
ParseMembers(t, i0, acc) ==
  LET i == SkipWs(t, i0) IN
  IF i > Len(t) \/ t[i] # Cp("\"") THEN ParseFail
  ELSE
    CHOOSE result \in {
      IF ~name.ok THEN ParseFail
      ELSE
        LET c == SkipWs(t, name.next) IN
        IF c > Len(t) \/ t[c] # Cp(":") THEN ParseFail
        ELSE
          CHOOSE member \in {
            IF ~r.ok THEN ParseFail
            ELSE
              LET j == SkipWs(t, r.next) IN
              IF j > Len(t) THEN ParseFail
              ELSE IF t[j] = Cp(",") THEN
                ParseMembers(t, j + 1, WithProp(acc, name.val.text, r.val))
              ELSE IF t[j] = Cp("}") THEN
                ParseOk(Obj(WithProp(acc, name.val.text, r.val)), j + 1)
              ELSE ParseFail
            : r \in {ParseValue(t, c + 1)}} : TRUE
      : name \in {ParseString(t, i + 1)}} : TRUE

\* JSON.parse(text): [ok |-> TRUE, val |-> the value], or [ok |-> FALSE] where
\* JSON.parse throws a SyntaxError.
JsonParse(text) ==
  CHOOSE result \in {
    IF r.ok /\ SkipWs(text, r.next) > Len(text) THEN [ok |-> TRUE, val |-> r.val]
    ELSE [ok |-> FALSE]
    : r \in {ParseValue(text, 1)}} : TRUE

(***************************************************************************)
(* Map<string, string>: the entries in insertion order                     *)
(***************************************************************************)

MapKeys(m) == [i \in 1..Len(m) |-> m[i].key]
MapHas(m, key) == \E i \in 1..Len(m) : m[i].key = key
MapGet(m, key) == m[CHOOSE i \in 1..Len(m) : m[i].key = key].value

\* MapSet with a bug: the entry is added without a look for the key.
MapSetAlwaysAppends(m, key, value) == Append(m, [key |-> key, value |-> value])

\* Map.prototype.set: a present key keeps its place, a new key goes last.
MapSet(m, key, value) ==
  IF MapHas(m, key)
  THEN [i \in 1..Len(m) |-> IF m[i].key = key THEN [key |-> key, value |-> value] ELSE m[i]]
  ELSE Append(m, [key |-> key, value |-> value])

\* MapDelete with a bug: the comparison is the wrong way round.
MapDeleteKeepsKey(m, key) == SelectSeq(m, LAMBDA e : e.key = key)

\* MapDelete with a bug: Map.prototype.clear for Map.prototype.delete.
MapDeleteClears(m, key) == SubSeq(m, 1, 0)

\* Map.prototype.delete
MapDelete(m, key) == SelectSeq(m, LAMBDA e : e.key # key)

(***************************************************************************)
(* The options argument of get: absent, a bare string, or an object with   *)
(* a type field.                                                           *)
(***************************************************************************)

NoOptions == [form |-> "undefined", type |-> "undefined"]
StringOption(s) == [form |-> "string", type |-> s]
ObjectOption(s) == [form |-> "object", type |-> s]

\* options?.type === s
OptionsTypeIs(options, s) == options.form = "object" /\ options.type = s
\* options === s
OptionsIs(options, s) == options.form = "string" /\ options.type = s

(***************************************************************************)
(* MockKV                                                                  *)
(***************************************************************************)

\* The try/catch around JSON.parse(value): the value, or null when it throws.
ParseOrNull(value) ==
  CHOOSE result \in {IF r.ok THEN r.val ELSE Null : r \in {JsonParse(value)}} : TRUE

\* Get with a bug: "if (!value)" for "if (value === undefined)".
GetFalsyIsAbsent(store, key, options) ==
  IF ~MapHas(store, key) \/ ~Truthy(MapGet(store, key)) THEN Null
  ELSE Str(MapGet(store, key))

\* Get with a bug: the branch for the bare string "json" is missing.
GetJsonObjectOnly(store, key, options) ==
  IF ~MapHas(store, key) THEN Null
  ELSE
    LET value == MapGet(store, key) IN
    IF OptionsTypeIs(options, "json") /\ Truthy(value) THEN ParseOrNull(value)
    ELSE Str(value)

\* MockKV.get: what the promise resolves to.
Get(store, key, options) ==
  IF ~MapHas(store, key) THEN Null
  ELSE
    LET value == MapGet(store, key) IN
    IF OptionsTypeIs(options, "json") /\ Truthy(value) THEN ParseOrNull(value)
    ELSE IF OptionsIs(options, "json") /\ Truthy(value) THEN ParseOrNull(value)
    ELSE IF OptionsIs(options, "arrayBuffer") /\ Truthy(value) THEN
      ArrayBuffer(Utf8Encode(value))
    ELSE IF OptionsIs(options, "stream") /\ Truthy(value) THEN
      ReadableStream(<<Utf8Encode(value)>>)
    ELSE Str(value)

\* AllChunks with a bug: the chunks are copied last chunk first.
RECURSIVE AllChunksReversed(_)
AllChunksReversed(chunks) ==
  IF chunks = <<>> THEN <<>> ELSE AllChunksReversed(Tail(chunks)) \o Head(chunks)

\* The chunks of a drained stream copied into one Uint8Array, in order.
RECURSIVE AllChunks(_)
AllChunks(chunks) ==
  IF chunks = <<>> THEN <<>> ELSE Head(chunks) \o AllChunks(Tail(chunks))

\* The third argument of put: absent, or an object that asks for an expiry
\* at an absolute time.
Expiration(time) == [kind |-> "options", expiration |-> time]

\* PutEffect with a bug: a value put with an absolute expiry that has passed
\* is dropped at once.
PutEffectExpires(store, key, valueToStore, options) ==
  IF options.kind = "options" /\ "expiration" \in DOMAIN options /\ options.expiration <= 0
  THEN MapDelete(store, key)
  ELSE MapSet(store, key, valueToStore)

\* What put does to the Map: memoryStore.set(key, valueToStore); _options is
\* not read.
PutEffect(store, key, valueToStore, options) == MapSet(store, key, valueToStore)

\* GetWithMetadata with a bug: the decode mode is not handed on to get.
GetWithMetadataDropsOptions(store, key, options) ==
  [value |-> Get(store, key, NoOptions), metadata |-> Null, cacheStatus |-> Null]

\* MockKV.getWithMetadata: what the promise resolves to.
GetWithMetadata(store, key, options) ==
  [value |-> Get(store, key, options), metadata |-> Null, cacheStatus |-> Null]

\* valueToStore for a value that is no stream.
ValueToStore(value) ==
  IF value.kind = "ArrayBuffer" THEN Utf8Decode(value.bytes) ELSE value.text

DefaultLimit == 1000

\* Array.prototype.slice(0, n) for an integer n >= 0
Slice(s, n) == SubSeq(s, 1, IF n < Len(s) THEN n ELSE Len(s))

\* The options argument of list: prefix and limit, each a value or Undefined.
ListOptions(prefix, limit) == [prefix |-> prefix, limit |-> limit]

\* PrefixMatches with a bug: startsWith with its operands exchanged.
PrefixMatchesSwapped(options, key) ==
  IF options.prefix.kind = "string" /\ Truthy(options.prefix.text)
  THEN StartsWith(options.prefix.text, key)
  ELSE TRUE

\* options?.prefix ? key.startsWith(options.prefix) : true
PrefixMatches(options, key) ==
  IF options.prefix.kind = "string" /\ Truthy(options.prefix.text)
  THEN StartsWith(key, options.prefix.text)
  ELSE TRUE

\* LimitOf with a bug: "options?.limit || 1000", which replaces a limit of 0.
LimitOrDefault(options) ==
  IF options.limit.kind = "undefined" \/ options.limit.num = 0 THEN DefaultLimit
  ELSE options.limit.num

\* options?.limit ?? 1000
LimitOf(options) ==
  IF options.limit.kind = "undefined" THEN DefaultLimit ELSE options.limit.num

\* List with a bug: a result cut short is marked incomplete and given a cursor.
ListPaginated(store, options) ==
  LET names == SelectSeq(MapKeys(store), LAMBDA key : PrefixMatches(options, key))
      keys == [i \in 1..Len(names) |-> [name |-> names[i]]]
  IN IF Len(keys) > LimitOf(options)
     THEN [keys |-> Slice(keys, LimitOf(options)),
           list_complete |-> FALSE,
           cursor |-> Str(names[LimitOf(options) + 1]),
           cacheStatus |-> Null]
     ELSE [keys |-> keys, list_complete |-> TRUE, cacheStatus |-> Null]

\* MockKV.list: what the promise resolves to.
List(store, options) ==
  LET names == SelectSeq(MapKeys(store), LAMBDA key : PrefixMatches(options, key))
      keys == [i \in 1..Len(names) |-> [name |-> names[i]]]
  IN [keys |-> Slice(keys, LimitOf(options)),
      list_complete |-> TRUE,
      cacheStatus |-> Null]

(***************************************************************************)
(* Inputs                                                                  *)
(***************************************************************************)

\* The largest limit a list call asks for, apart from those around the default.
MaxLimit == 2
\* The longest text and the longest buffer of the exhaustive input sets.
MaxTextLen == 3
MaxBufLen == 3
\* How far the size of a large store lies from the default limit, either way.
Slack == 1
\* How many puts of a stream are suspended at a time.
MaxInflight == 1

KeyA == T(<<"u", ":", "a">>)
KeyB == T(<<"u", ":", "b">>)
KeyC == T(<<"c">>)
Keys == {KeyA, KeyB, KeyC}

IdOne == T(<<"{", "\"", "i", "d", "\"", ":", "1", "}">>)

PutValues ==
  {Str(<<>>), Str(IdOne), ArrayBuffer(Utf8Encode(IdOne)),
   ReadableStream(<<Utf8Encode(SubSeq(IdOne, 1, 5)), Utf8Encode(SubSeq(IdOne, 6, 8))>>)}

\* "text" stands for every string get does not compare its options with.
Modes == {"json", "arrayBuffer", "stream", "text"}
GetOptions ==
  {NoOptions} \cup {StringOption(s) : s \in Modes} \cup {ObjectOption(s) : s \in Modes}

Prefixes ==
  {Undefined, Str(<<>>), Str(T(<<"u", ":">>)), Str(KeyA), Str(T(<<"x">>))}
Limits == {Undefined} \cup {Num(n) : n \in 0..MaxLimit}

\* Every sequence over alphabet of length at most n.
SeqsUpTo(alphabet, n) == UNION {[1..m -> alphabet] : m \in 0..n}

JsonChars == {Cp("{"), Cp("}"), Cp("["), Cp("]"), Cp("\""), Cp(","), Cp("-"),
              Cp("0"), Cp("1"), Cp(" ")}
\* "x", the three bytes of a byte order mark, the two bytes of U+00E9, and a
\* byte no UTF-8 text holds
SomeBytes == {120, 239, 187, 191, 195, 169, 255}

SampleTexts ==
  {IdOne, T(<<"n", "u", "l", "l">>), T(<<"t", "r", "u", "e">>), T(<<"f", "a", "l", "s", "e">>),
   T(<<"n", "u", "l">>), T(<<"x">>),
   T(<<"{", "\"", "a", "\"", ":", "1", ",", "\"", "a", "\"", ":", "2", "}">>),
   T(<<"{", "\"", "a", "\"", ":", "[", "1", ",", " ", "2", "]", "}">>),
   T(<<"{", "\"", "a", "\"", ":", "1", ",", "}">>), T(<<"[", "1", ",", "]">>)}
SampleBuffers ==
  {<<239, 187, 191, 239, 187, 191, 120>>, <<239, 187, 191, 120>>}

WideValues ==
  {Str(t) : t \in SeqsUpTo(JsonChars, MaxTextLen) \cup SampleTexts}
    \cup {ArrayBuffer(b) : b \in SeqsUpTo(SomeBytes, MaxBufLen) \cup SampleBuffers}

\* U+00E9 as a text and as its two bytes
EAcute == <<233>>
EAcuteBytes == <<195, 169>>
\* Streams: one that delivers the two bytes of U+00E9 in two chunks and
\* closes, one whose read fails after a chunk, one that stays open after a
\* chunk.
SplitStream == StreamEnding(<<<<195>>, <<169>>>>, "close")
FailingStream == StreamEnding(<<<<120>>>>, "error")
EndlessStream == StreamEnding(<<<<120>>>>, "never")
OpsKeys == {KeyA, KeyC}
OpsValues == {Str(<<>>), ArrayBuffer(EAcuteBytes)}
OpsStreams == {SplitStream, FailingStream, EndlessStream}
PutOptions == {Undefined, Expiration(0)}
MetadataOptions == {NoOptions, StringOption("json")}

(***************************************************************************)
(* State                                                                   *)
(*                                                                         *)
(* memoryStore  the module's Map                                           *)
(* inflight     the calls suspended at an await: puts at "await            *)
(*              reader.read()", route handlers between two store calls     *)
(* call, ret    the operation that ran last and what its promise resolved  *)
(*              to (Pending for a put that is suspended)                   *)
(* last         history: for each key, the last put or delete that         *)
(*              completed on it since the initial state                    *)
(***************************************************************************)

Pending == [kind |-> "pending"]
NoCall == [op |-> "none"]

\* The text a put of this value is to store, by the kind of the value.
WrittenText(value) ==
  IF value.kind = "string" THEN value.text
  ELSE IF value.kind = "ArrayBuffer" THEN Utf8Decode(value.bytes)
  ELSE Utf8Decode(AllChunks(value.chunks))

Record(history, key, entry) ==
  [k \in DOMAIN history \cup {key} |-> IF k = key THEN entry ELSE history[k]]

Init ==
  /\ memoryStore = <<>>
  /\ inflight = <<>>
  /\ call = NoCall
  /\ ret = Undefined
  /\ last = [k \in {} |-> NoCall]

(***************************************************************************)
(* Operations                                                              *)
(***************************************************************************)

get(key, options) ==
  /\ call' = [op |-> "get", key |-> key, options |-> options]
  /\ ret' = Get(memoryStore, key, options)
  /\ UNCHANGED <<memoryStore, inflight, last>>

\* The record of a put call, and of a completed put in the history: the
\* options are recorded when the call gave any.
PutCall(key, value, options) ==
  IF options = Undefined THEN [op |-> "put", key |-> key, value |-> value]
  ELSE [op |-> "put", key |-> key, value |-> value, options |-> options]
PutEntry(value, options) ==
  IF options = Undefined THEN [op |-> "put", text |-> WrittenText(value)]
  ELSE [op |-> "put", text |-> WrittenText(value), options |-> options]

\* memoryStore.set(key, valueToStore), the last statement of put
Store(key, value, valueToStore, options) ==
  /\ memoryStore' = PutEffect(memoryStore, key, valueToStore, options)
  /\ call' = PutCall(key, value, options)
  /\ ret' = Undefined
  /\ last' = Record(last, key, PutEntry(value, options))

\* put, up to its return or to its first "await reader.read()"
put(key, value, options) ==
  IF value.kind = "ReadableStream" THEN
    /\ Len(inflight) < MaxInflight
    /\ inflight' = Append(inflight, [key |-> key, value |-> value, options |-> options,
                                     source |-> value.chunks, chunks |-> <<>>])
    /\ call' = PutCall(key, value, options)
    /\ ret' = Pending
    /\ UNCHANGED <<memoryStore, last>>
  ELSE
    /\ Store(key, value, ValueToStore(value), options)
    /\ UNCHANGED inflight

RemoveAt(s, i) == SubSeq(s, 1, i - 1) \o SubSeq(s, i + 1, Len(s))

\* putRead with a bug: what was read so far is stored after every chunk.
putReadWritesThrough(i) ==
  /\ inflight[i].source # <<>>
  /\ inflight' = [inflight EXCEPT ![i].source = Tail(@),
                                  ![i].chunks = Append(@, Head(inflight[i].source))]
  /\ memoryStore' = MapSet(memoryStore, inflight[i].key,
                           Utf8Decode(AllChunks(inflight'[i].chunks)))
  /\ UNCHANGED <<call, ret, last>>

\* reader.read() resolves with a chunk: chunks.push(chunk), and the next read
putRead(i) ==
  /\ inflight[i].source # <<>>
  /\ inflight' = [inflight EXCEPT ![i].source = Tail(@),
                                  ![i].chunks = Append(@, Head(inflight[i].source))]
  /\ UNCHANGED <<memoryStore, call, ret, last>>

\* putDone with a bug: the loop also ends when the source has no chunk at
\* hand, closed or not.
putDoneWhenIdle(i) ==
  /\ inflight[i].source = <<>>
  /\ StreamEnd(inflight[i].value) # "error"
  /\ Store(inflight[i].key, inflight[i].value, Utf8Decode(AllChunks(inflight[i].chunks)),
           inflight[i].options)
  /\ inflight' = RemoveAt(inflight, i)

\* reader.read() resolves with done: the chunks are joined, decoded and stored
putDone(i) ==
  /\ inflight[i].source = <<>>
  /\ StreamEnd(inflight[i].value) = "close"
  /\ Store(inflight[i].key, inflight[i].value, Utf8Decode(AllChunks(inflight[i].chunks)),
           inflight[i].options)
  /\ inflight' = RemoveAt(inflight, i)

\* reader.read() rejects: nothing catches it, the promise of put is rejected
putFail(i) ==
  /\ inflight[i].source = <<>>
  /\ StreamEnd(inflight[i].value) = "error"
  /\ inflight' = RemoveAt(inflight, i)
  /\ call' = PutCall(inflight[i].key, inflight[i].value, inflight[i].options)
  /\ ret' = Rejected
  /\ UNCHANGED <<memoryStore, last>>

delete(key) ==
  /\ memoryStore' = MapDelete(memoryStore, key)
  /\ call' = [op |-> "delete", key |-> key]
  /\ ret' = Undefined
  /\ last' = Record(last, key, [op |-> "delete"])
  /\ UNCHANGED inflight

list(options) ==
  /\ call' = [op |-> "list", options |-> options]
  /\ ret' = List(memoryStore, options)
  /\ UNCHANGED <<memoryStore, inflight, last>>

\* getWithMetadata: get runs to its return when it is called, in this state
getWithMetadata(key, options) ==
  /\ call' = [op |-> "getWithMetadata", key |-> key, options |-> options]
  /\ ret' = GetWithMetadata(memoryStore, key, options)
  /\ UNCHANGED <<memoryStore, inflight, last>>

\* Three keys, few values: any order of the operations, suspended puts included.
Next ==
  \/ \E key \in Keys, options \in {NoOptions, StringOption("json")} : get(key, options)
  \/ \E key \in Keys, value \in PutValues : put(key, value, Undefined)
  \/ \E i \in 1..Len(inflight) : putRead(i)
  \/ \E i \in 1..Len(inflight) : putDone(i)
  \/ \E key \in Keys : delete(key)
  \/ \E prefix \in {Undefined, Str(T(<<"u", ":">>))}, limit \in {Undefined, Num(1)} :
       list(ListOptions(prefix, limit))

Spec == Init /\ [][Next]_vars

\* One key, every decode mode; an empty store is offered every value of the
\* exhaustive input sets.
NextValues ==
  \/ \E options \in GetOptions : get(KeyC, options)
  \/ \E value \in (IF memoryStore = <<>> THEN WideValues ELSE PutValues) :
       value.kind # "ReadableStream" /\ put(KeyC, value, Undefined)
  \/ delete(KeyC)
  \/ \E prefix \in {Undefined, Str(KeyC)} : list(ListOptions(prefix, Undefined))

SpecValues == Init /\ [][NextValues]_vars

\* A store of n keys "u:" + a character, each holding the empty text: the
\* state after n puts.
LargeKey(i) == T(<<"u", ":">>) \o <<255 + i>>
LargeStore(n) == [i \in 1..n |-> [key |-> LargeKey(i), value |-> <<>>]]

InitLarge ==
  /\ \E n \in (DefaultLimit - Slack)..(DefaultLimit + Slack) :
       /\ memoryStore = LargeStore(n)
       /\ last = [k \in {} |-> NoCall]
  /\ inflight = <<>>
  /\ call = NoCall
  /\ ret = Undefined

\* No limit, zero, a small one, and one above the default.
LargeLimits == {Undefined, Num(0), Num(MaxLimit), Num(DefaultLimit + 1)}

NextLarge ==
  \/ get(KeyA, NoOptions)
  \/ \E key \in {KeyA, KeyC} : put(key, Str(<<>>), Undefined)
  \/ \E key \in {KeyA, LargeKey(1)} : delete(key)
  \/ \E prefix \in {Undefined, Str(T(<<"u", ":">>)), Str(KeyC)}, limit \in LargeLimits :
       list(ListOptions(prefix, limit))

SpecLarge == InitLarge /\ [][NextLarge]_vars

\* Every operation of the emulator on two keys: puts with and without an
\* expiry, and on one of the keys puts of streams that close, fail or stay
\* open.
NextOps ==
  \/ \E key \in OpsKeys : get(key, NoOptions)
  \/ \E key \in OpsKeys, options \in MetadataOptions : getWithMetadata(key, options)
  \/ \E key \in OpsKeys, value \in OpsValues, options \in PutOptions :
       put(key, value, options)
  \/ \E value \in OpsStreams, options \in PutOptions : put(KeyA, value, options)
  \/ \E i \in 1..Len(inflight) : putRead(i)
  \/ \E i \in 1..Len(inflight) : putDone(i)
  \/ \E i \in 1..Len(inflight) : putFail(i)
  \/ \E key \in OpsKeys : delete(key)
  \/ list(ListOptions(Undefined, Undefined))

SpecOps == Init /\ [][NextOps]_vars

\* Two keys, on one of them a stream that closes and one that stays open,
\* and the event loop's promise: a read that the source has resolved is
\* resumed.
NextLive ==
  \/ \E key \in OpsKeys : get(key, NoOptions)
  \/ \E key \in OpsKeys : put(key, Str(<<>>), Undefined)
  \/ \E value \in {SplitStream, EndlessStream} : put(KeyA, value, Undefined)
  \/ \E i \in 1..Len(inflight) : putRead(i)
  \/ \E i \in 1..Len(inflight) : putDone(i)
  \/ \E key \in OpsKeys : delete(key)

Resume(i) == i \in 1..Len(inflight) /\ (putRead(i) \/ putDone(i))

SpecLive ==
  Init /\ [][NextLive]_vars /\ \A i \in 1..MaxInflight : WF_vars(Resume(i))

(***************************************************************************)
(* The routes: texts, JSON.stringify, validation, sessions                 *)
(***************************************************************************)

UserPrefix == T(<<"u", "s", "e", "r", ":">>)
ConfigKey == T(<<"c", "o", "n", "f", "i", "g">>)
AllowedDomainsName == T(<<"a", "l", "l", "o", "w", "e", "d", "D", "o", "m", "a", "i", "n", "s">>)
RequireAuthName == T(<<"r", "e", "q", "u", "i", "r", "e", "A", "u", "t", "h">>)
IdName == T(<<"i", "d">>)
EmailName == T(<<"e", "m", "a", "i", "l">>)
FirstNameName == T(<<"f", "i", "r", "s", "t", "N", "a", "m", "e">>)
LastNameName == T(<<"l", "a", "s", "t", "N", "a", "m", "e">>)
PasswordHashName == T(<<"p", "a", "s", "s", "w", "o", "r", "d", "H", "a", "s", "h">>)
PasswordName == T(<<"p", "a", "s", "s", "w", "o", "r", "d">>)
CreatedAtName == T(<<"c", "r", "e", "a", "t", "e", "d", "A", "t">>)
UpdatedAtName == T(<<"u", "p", "d", "a", "t", "e", "d", "A", "t">>)
NameName == T(<<"n", "a", "m", "e">>)
RolesName == T(<<"r", "o", "l", "e", "s">>)

\* String.prototype.toLowerCase, on the letters A to Z
ToLowerCase(text) ==
  [i \in 1..Len(text) |-> IF text[i] \in 65..90 THEN text[i] + 32 ELSE text[i]]

\* String.prototype.trim, on spaces
RECURSIVE TrimStart(_), TrimEnd(_)
TrimStart(text) ==
  IF text # <<>> /\ Head(text) = Cp(" ") THEN TrimStart(Tail(text)) ELSE text
TrimEnd(text) ==
  IF text # <<>> /\ text[Len(text)] = Cp(" ")
  THEN TrimEnd(SubSeq(text, 1, Len(text) - 1))
  ELSE text
Trim(text) == TrimEnd(TrimStart(text))

\* String.prototype.endsWith
EndsWith(s, p) == Len(p) <= Len(s) /\ SubSeq(s, Len(s) - Len(p) + 1, Len(s)) = p

\* The positions of a character in a text.
Positions(text, c) == {i \in 1..Len(text) : text[i] = c}
Max(S) == CHOOSE x \in S : \A y \in S : y <= x

IsLetter(c) == c \in 65..90 \/ c \in 97..122
IsLetterOrDigit(c) == IsLetter(c) \/ c \in 48..57

\* z.string().email() on texts of letters, digits, ".", "-" and "@": one
\* "@", a local part that neither starts nor ends with "." and has no "..",
\* a domain of labels that start with a letter or digit, each followed by
\* ".", and a last label of two or more letters.
IsEmail(text) ==
  /\ Cardinality(Positions(text, Cp("@"))) = 1
  /\ LET at == CHOOSE i \in 1..Len(text) : text[i] = Cp("@")
         local == SubSeq(text, 1, at - 1)
         domain == SubSeq(text, at + 1, Len(text))
         dots == Positions(domain, Cp("."))
     IN /\ local # <<>>
        /\ Head(local) # Cp(".") /\ local[Len(local)] # Cp(".")
        /\ \A i \in 1..Len(local) :
             /\ IsLetterOrDigit(local[i]) \/ local[i] \in {Cp("."), Cp("-"), Cp("_")}
             /\ i < Len(local) => ~(local[i] = Cp(".") /\ local[i + 1] = Cp("."))
        /\ dots # {}
        /\ \A i \in 1..Len(domain) :
             IsLetterOrDigit(domain[i]) \/ domain[i] \in {Cp("."), Cp("-")}
        /\ domain # <<>> /\ IsLetterOrDigit(Head(domain))
        /\ \A d \in dots : d < Len(domain) /\ IsLetterOrDigit(domain[d + 1])
        /\ Len(domain) - Max(dots) >= 2
        /\ \A i \in (Max(dots) + 1)..Len(domain) : IsLetter(domain[i])

\* The least length a password may have (RegisterSchema, LoginSchema).
MinPassword == 6
\* The least length a domain may have (DomainSchema).
MinDomain == 3

\* JS truthiness of a value
ToBoolean(value) ==
  CASE value.kind \in {"null", "undefined"} -> FALSE
    [] value.kind = "string" -> Len(value.text) > 0
    [] value.kind = "number" -> value.num # 0
    [] value.kind = "boolean" -> value.bool
    [] OTHER -> TRUE

\* value?.name and value.name on a value that is not null: the property of an
\* object, undefined on every other value.
Prop(value, name) ==
  IF value.kind = "object" /\ name \in DOMAIN value.props THEN value.props[name]
  ELSE Undefined

\* An object written as a literal, its members in the order they are written:
\* the order JSON.stringify writes them in.
ObjectLiteral(members) == [kind |-> "literal", members |-> members]
Member(name, value) == [name |-> name, value |-> value]

\* JSON.stringify of a string: quotes, and a backslash before a quote or a
\* backslash (the texts hold no control character).
RECURSIVE Escape(_)
Escape(text) ==
  IF \A i \in 1..Len(text) : text[i] \notin {34, 92} THEN text
  ELSE IF Head(text) \in {34, 92} THEN <<92, Head(text)>> \o Escape(Tail(text))
  ELSE <<Head(text)>> \o Escape(Tail(text))
Quote(text) == <<34>> \o Escape(text) \o <<34>>

\* JSON.stringify of strings, booleans, null, arrays and object literals; a
\* member whose value is undefined is left out.
RECURSIVE JsonStringify(_), JoinItems(_), JoinMembers(_)
JsonStringify(value) ==
  CASE value.kind = "string" -> Quote(value.text)
    [] value.kind = "boolean" ->
         IF value.bool THEN T(<<"t", "r", "u", "e">>)
         ELSE T(<<"f", "a", "l", "s", "e">>)
    [] value.kind = "null" -> T(<<"n", "u", "l", "l">>)
    [] value.kind = "array" -> <<Cp("[")>> \o JoinItems(value.items) \o <<Cp("]")>>
    [] value.kind = "literal" ->
         <<Cp("{")>> \o JoinMembers(SelectSeq(value.members,
                                            LAMBDA m : m.value # Undefined)) \o <<Cp("}")>>
JoinItems(items) ==
  IF items = <<>> THEN <<>>
  ELSE IF Len(items) = 1 THEN JsonStringify(items[1])
  ELSE JsonStringify(items[1]) \o <<Cp(",")>> \o JoinItems(Tail(items))
JoinMembers(members) ==
  IF members = <<>> THEN <<>>
  ELSE LET first == Quote(members[1].name) \o <<Cp(":")>> \o JsonStringify(members[1].value)
       IN IF Len(members) = 1 THEN first
          ELSE first \o <<Cp(",")>> \o JoinMembers(Tail(members))

\* Responses: json(body, {status}), redirect(location), and the redirect of
\* createUserSession, which sets the session cookie to a session that holds
\* userId.
Json(status) == [kind |-> "response", status |-> status]
Redirect(location) == [kind |-> "response", status |-> 302, location |-> location]
CreateUserSession(userId, redirectTo) ==
  [kind |-> "response", status |-> 302, location |-> redirectTo, session |-> userId]

\* A request, by the userId of the session its cookie holds (undefined with
\* no cookie).
Request(userId) == [userId |-> userId]

\* GetUser with a bug: the session is trusted, the record is not looked up.
GetUserTrustsSession(store, request) ==
  IF ~ToBoolean(request.userId) THEN Null ELSE request.userId

\* getUser: the parsed record under the key that the session's userId names
\* (userData is the one result of the one get)
GetUser(store, request) ==
  IF ~ToBoolean(request.userId) THEN Null
  ELSE CHOOSE user \in {IF ~ToBoolean(userData) THEN Null ELSE userData :
                          userData \in {Get(store, request.userId.text, ObjectOption("json"))}} :
         TRUE

\* isEmailDomainAllowed
IsEmailDomainAllowed(email, allowedDomains) ==
  LET ats == Positions(email, Cp("@")) IN
  IF ats = {} THEN FALSE
  ELSE
    LET first == CHOOSE i \in ats : \A j \in ats : i <= j
        rest == SubSeq(email, first + 1, Len(email))
        more == Positions(rest, Cp("@"))
        second == IF more = {} THEN Len(rest) + 1
                  ELSE CHOOSE i \in more : \A j \in more : i <= j
        domain == ToLowerCase(SubSeq(rest, 1, second - 1))
    IN /\ domain # <<>>
       /\ \E n \in 1..Len(allowedDomains) :
            LET allowedDomain == ToLowerCase(allowedDomains[n]) IN
              \/ domain = allowedDomain
              \/ EndsWith(domain, <<Cp(".")>> \o allowedDomain)

\* `user:${email}`
UserKey(email) == UserPrefix \o email

\* RegisterSchema.safeParse
RegisterValid(email, password, firstName, lastName) ==
  /\ IsEmail(email)
  /\ Len(password) >= MinPassword
  /\ Len(firstName) >= 1
  /\ Len(lastName) >= 1

\* userData of the register action
UserData(userKey, email, firstName, lastName, password, now) ==
  ObjectLiteral(<<Member(IdName, Str(userKey)), Member(EmailName, Str(email)),
                  Member(FirstNameName, Str(firstName)), Member(LastNameName, Str(lastName)),
                  Member(PasswordHashName, Str(password)),
                  Member(CreatedAtName, Str(now)), Member(UpdatedAtName, Str(now))>>)

\* LoginSchema.safeParse
LoginValid(email, password) == IsEmail(email) /\ Len(password) >= MinPassword

\* PasswordMatches with a bug: every password is accepted.
PasswordMatchesAny(userData, password) == TRUE

\* !(userData.password !== password)
PasswordMatches(userData, password) == Prop(userData, PasswordName) = Str(password)

\* authConfig?.requireAuth === true
RequireAuth(authConfig) == Prop(authConfig, RequireAuthName) = Bool(TRUE)

\* testUser of setupMockData
TestUserId == T(<<"t", "e", "s", "t", "-", "u", "s", "e", "r", "-", "1", "2", "3">>)
TestEmail == T(<<"t", "e", "s", "t", "@", "e", "x", "a", "m", "p", "l", "e", ".", "c", "o", "m">>)
TestPassword == T(<<"p", "a", "s", "s", "w", "o", "r", "d", "1", "2", "3">>)
TestUser(now) ==
  ObjectLiteral(<<Member(IdName, Str(TestUserId)), Member(EmailName, Str(TestEmail)),
                  Member(NameName, Str(T(<<"T", "e", "s", "t", " ", "U", "s", "e", "r">>))),
                  Member(RolesName, Arr(<<Str(T(<<"u", "s", "e", "r">>))>>)),
                  Member(CreatedAtName, Str(now)), Member(PasswordName, Str(TestPassword))>>)

\* authConfig of the admin action: the stored config, or { allowedDomains: [] }
\* where none is stored or the environment has no boltKV.
DefaultAuthConfig == Obj([n \in {AllowedDomainsName} |-> Arr(<<>>)])
AuthConfig(store, hasKV) ==
  IF ~hasKV THEN DefaultAuthConfig
  ELSE CHOOSE authConfig \in {IF ToBoolean(config) THEN config ELSE DefaultAuthConfig :
                                config \in {Get(store, ConfigKey, ObjectOption("json"))}} :
         TRUE

\* The members of a parsed config in the order JSON.stringify writes them:
\* every config the routes write names allowedDomains before requireAuth.
ConfigLiteral(authConfig) ==
  ObjectLiteral(SelectSeq(<<Member(AllowedDomainsName, Prop(authConfig, AllowedDomainsName)),
                            Member(RequireAuthName, Prop(authConfig, RequireAuthName))>>,
                          LAMBDA m : m.name \in DOMAIN authConfig.props))

\* formData.get('requireAuth') of a checked checkbox
On == T(<<"o", "n">>)

\* What the admin action does once it holds authConfig: the response, and
\* the config it puts (write is FALSE where it puts nothing).  A TypeError
\* (allowedDomains is no array) is not caught: the response is a 500.
NoWrite(response) == [response |-> response, write |-> FALSE]
WriteConfig(authConfig, hasKV) ==
  IF hasKV
  THEN [response |-> Json(200), write |-> TRUE,
        text |-> JsonStringify(ConfigLiteral(authConfig))]
  ELSE NoWrite(Json(500))
AdminOutcome(authConfig, form, hasKV) ==
  LET allowedDomains == Prop(authConfig, AllowedDomainsName)
      domain == IF form.domain = Undefined THEN Undefined
                ELSE Str(Trim(ToLowerCase(form.domain.text)))
  IN
  IF form.action = "add_domain" THEN
    IF domain = Undefined \/ Len(domain.text) < MinDomain THEN NoWrite(Json(400))
    ELSE IF authConfig.kind # "object" \/ allowedDomains.kind # "array" THEN NoWrite(Json(500))
    ELSE IF \E n \in 1..Len(allowedDomains.items) : allowedDomains.items[n] = domain
         THEN NoWrite(Json(400))
    ELSE WriteConfig(Obj(WithProp(authConfig.props, AllowedDomainsName,
                                  Arr(Append(allowedDomains.items, domain)))), hasKV)
  ELSE IF form.action = "remove_domain" THEN
    IF authConfig.kind # "object" \/ allowedDomains.kind # "array" THEN NoWrite(Json(500))
    ELSE WriteConfig(Obj(WithProp(authConfig.props, AllowedDomainsName,
                                  Arr(SelectSeq(allowedDomains.items,
                                                LAMBDA d : d # domain)))), hasKV)
  ELSE IF form.action = "toggle_auth_requirement" THEN
    IF authConfig.kind # "object" THEN NoWrite(Json(500))
    ELSE WriteConfig(Obj(WithProp(authConfig.props, RequireAuthName,
                                  Bool(form.requireAuth = Str(On)))), hasKV)
  ELSE NoWrite(Json(400))

(***************************************************************************)
(* The routes: inputs                                                      *)
(***************************************************************************)

\* new Date().toISOString()
Now == T(<<"2", "0", "2", "4", "-", "0", "1", "-", "0", "1", "T", "0", "0", ":", "0", "0", ":", "0", "0", ".", "0", "0", "0", "Z">>)

EmailA == T(<<"A", "@", "x", ".", "c", "o">>)
EmailB == T(<<"b", "@", "y", ".", "i", "o">>)
NoEmail == T(<<"n", "o", "p", "e">>)
Secret == T(<<"s", "e", "c", "r", "e", "t">>)
Short == T(<<"s", "h", "o", "r", "t">>)
DomainX == T(<<"x", ".", "c", "o">>)

RegisterForm(email, password, firstName, lastName) ==
  [email |-> email, password |-> password, firstName |-> firstName, lastName |-> lastName]
RegisterForms ==
  {RegisterForm(EmailA, Secret, <<Cp("A")>>, <<Cp("B")>>),
   RegisterForm(EmailB, Secret, <<Cp("A")>>, <<Cp("B")>>),
   RegisterForm(NoEmail, Short, <<Cp("A")>>, <<>>)}

LoginForm(email, password) == [email |-> email, password |-> password]
LoginForms ==
  {LoginForm(EmailA, Secret),
   LoginForm(T(<<"T", "e", "s", "t", "@", "e", "x", "a", "m", "p", "l", "e", ".", "c", "o", "m">>), TestPassword),
   LoginForm(TestEmail, Secret),
   LoginForm(NoEmail, Short)}

SessionRequests ==
  {Request(Undefined), Request(Str(UserKey(ToLowerCase(EmailA)))), Request(Str(UserKey(EmailB)))}

AdminForm(action, domain, requireAuth) ==
  [action |-> action, domain |-> domain, requireAuth |-> requireAuth]
ToggleOn == AdminForm("toggle_auth_requirement", Undefined, Str(On))
AdminForms ==
  {AdminForm("add_domain", Str(DomainX), Null),
   AdminForm("remove_domain", Str(DomainX), Null),
   ToggleOn,
   AdminForm("toggle_auth_requirement", Undefined, Null)}

(***************************************************************************)
(* The routes: actions                                                     *)
(***************************************************************************)

\* kvStore.put(key, text) from a handler
kvPut(key, text) ==
  /\ memoryStore' = PutEffect(memoryStore, key, ValueToStore(Str(text)), Undefined)
  /\ last' = Record(last, key, PutEntry(Str(text), Undefined))

\* The handler at inflight[i] returns.
Return(i, callRecord, response) ==
  /\ inflight' = RemoveAt(inflight, i)
  /\ call' = callRecord
  /\ ret' = response

\* The register action, up to "await kvStore.get(userKey)", while fewer than
\* max handlers are suspended
registerWithin(form, max) ==
  LET email == ToLowerCase(form.email)
      userKey == UserKey(email)
  IN
  /\ call' = [op |-> "register", form |-> form]
  /\ IF ~RegisterValid(email, form.password, form.firstName, form.lastName) THEN
       /\ ret' = Json(400)
       /\ UNCHANGED <<memoryStore, inflight, last>>
     ELSE
       /\ Len(inflight) < max
       /\ inflight' = Append(inflight, [handler |-> "register", form |-> form,
                                        existingUser |-> Get(memoryStore, userKey, NoOptions)])
       /\ ret' = Pending
       /\ UNCHANGED <<memoryStore, last>>

register(form) == registerWithin(form, MaxInflight)

\* The register action from "if (existingUser)" on
registerResume(i, now) ==
  LET form == inflight[i].form
      email == ToLowerCase(form.email)
      userKey == UserKey(email)
      userData == UserData(userKey, email, form.firstName, form.lastName, form.password, now)
  IN
  /\ inflight[i].handler = "register"
  /\ IF ToBoolean(inflight[i].existingUser) THEN
       /\ Return(i, [op |-> "register", form |-> form], Json(400))
       /\ UNCHANGED <<memoryStore, last>>
     ELSE
       /\ kvPut(userKey, JsonStringify(userData))
       /\ Return(i, [op |-> "register", form |-> form], CreateUserSession(Str(userKey), "/"))

\* The login action
login(form) ==
  LET userKey == UserKey(ToLowerCase(form.email)) IN
  /\ call' = [op |-> "login", form |-> form]
  /\ IF ~LoginValid(form.email, form.password) THEN ret' = Json(400)
     ELSE \E userData \in {Get(memoryStore, userKey, ObjectOption("json"))} :
       ret' = IF ~ToBoolean(userData) THEN Json(401)
              ELSE IF ~PasswordMatches(userData, form.password) THEN Json(401)
              ELSE CreateUserSession(Prop(userData, IdName), "/")
  /\ UNCHANGED <<memoryStore, inflight, last>>

\* json({}) of the index loader
Page == Json(200)

\* The index loader, up to its return or to "await getUser(request, env)"
loader(request) ==
  /\ call' = [op |-> "loader", request |-> request]
  /\ \E authConfig \in {Get(memoryStore, ConfigKey, ObjectOption("json"))} :
       IF ~RequireAuth(authConfig) THEN
         /\ ret' = Page
         /\ UNCHANGED <<memoryStore, inflight, last>>
       ELSE
         /\ Len(inflight) < MaxInflight
         /\ inflight' = Append(inflight, [handler |-> "loader", request |-> request])
         /\ ret' = Pending
         /\ UNCHANGED <<memoryStore, last>>

\* The index loader from the lookup of getUser on
loaderResume(i) ==
  /\ inflight[i].handler = "loader"
  /\ Return(i, [op |-> "loader", request |-> inflight[i].request],
            IF GetUser(memoryStore, inflight[i].request) = Null THEN Redirect("/login")
            ELSE Page)
  /\ UNCHANGED <<memoryStore, last>>

AdminCall(entry) ==
  [op |-> "admin", request |-> entry.request, form |-> entry.form, hasKV |-> entry.hasKV]

\* The admin action, up to its 401 or past the lookup of getUser, while
\* fewer than max handlers are suspended
adminWithin(request, form, hasKV, max) ==
  /\ call' = [op |-> "admin", request |-> request, form |-> form, hasKV |-> hasKV]
  /\ IF GetUser(memoryStore, request) = Null THEN
       /\ ret' = Json(401)
       /\ UNCHANGED <<memoryStore, inflight, last>>
     ELSE
       /\ Len(inflight) < max
       /\ inflight' = Append(inflight, [handler |-> "admin", stage |-> "config",
                                        request |-> request, form |-> form, hasKV |-> hasKV])
       /\ ret' = Pending
       /\ UNCHANGED <<memoryStore, last>>

admin(request, form, hasKV) == adminWithin(request, form, hasKV, MaxInflight)

\* The admin action from authConfig on: the put of the config and the response
adminFinish(i, authConfig) ==
  \E outcome \in {AdminOutcome(authConfig, inflight[i].form, inflight[i].hasKV)} :
    /\ Return(i, AdminCall(inflight[i]), outcome.response)
    /\ IF outcome.write THEN kvPut(ConfigKey, outcome.text)
       ELSE UNCHANGED <<memoryStore, last>>

\* The admin action at "await env.boltKV.get('config', ...)"; with no boltKV
\* it does not suspend there
adminConfig(i) ==
  /\ inflight[i].handler = "admin"
  /\ inflight[i].stage = "config"
  /\ IF inflight[i].hasKV THEN
       /\ inflight' = [inflight EXCEPT ![i] =
                         [handler |-> "admin", stage |-> "write",
                          request |-> inflight[i].request, form |-> inflight[i].form,
                          hasKV |-> TRUE, authConfig |-> AuthConfig(memoryStore, TRUE)]]
       /\ UNCHANGED <<memoryStore, call, ret, last>>
     ELSE adminFinish(i, AuthConfig(memoryStore, FALSE))

\* The admin action after that await
adminWrite(i) ==
  /\ inflight[i].handler = "admin"
  /\ inflight[i].stage = "write"
  /\ adminFinish(i, inflight[i].authConfig)

\* setupMockData, up to the await of its first put
setupMockData(now) ==
  /\ Len(inflight) < MaxInflight
  /\ kvPut(UserKey(TestEmail), JsonStringify(TestUser(now)))
  /\ inflight' = Append(inflight, [handler |-> "setupMockData", stage |-> "allowedDomains"])
  /\ call' = [op |-> "setupMockData"]
  /\ ret' = Pending

\* setupMockData from its second put on
setupMockDataResume(i) ==
  /\ inflight[i].handler = "setupMockData"
  /\ IF inflight[i].stage = "allowedDomains" THEN
       /\ kvPut(AllowedDomainsName, JsonStringify(Arr(<<Str(T(<<"e", "x", "a", "m", "p", "l", "e", ".", "c", "o", "m">>))>>)))
       /\ inflight' = [inflight EXCEPT ![i].stage = "config"]
       /\ UNCHANGED <<call, ret>>
     ELSE
       /\ kvPut(ConfigKey,
                JsonStringify(ObjectLiteral(<<Member(RequireAuthName, Bool(FALSE))>>)))
       /\ Return(i, [op |-> "setupMockData"], Undefined)

\* Registration, the admin page and the index page over the emulator, which
\* createMockEnv binds as boltKV.
NextAuth ==
  \/ \E form \in RegisterForms : register(form)
  \/ \E i \in 1..Len(inflight) : registerResume(i, Now)
  \/ \E request \in SessionRequests : loader(request)
  \/ \E i \in 1..Len(inflight) : loaderResume(i)
  \/ \E request \in SessionRequests, form \in AdminForms : admin(request, form, TRUE)
  \/ \E request \in SessionRequests : admin(request, ToggleOn, FALSE)
  \/ \E i \in 1..Len(inflight) : adminConfig(i)
  \/ \E i \in 1..Len(inflight) : adminWrite(i)

SpecAuth == Init /\ [][NextAuth]_vars

\* Registration and the index page, with an admin who sets and clears the
\* login requirement.
ToggleForms == {ToggleOn, AdminForm("toggle_auth_requirement", Undefined, Null)}
NextIndex ==
  \/ \E form \in RegisterForms : register(form)
  \/ \E i \in 1..Len(inflight) : registerResume(i, Now)
  \/ \E request \in SessionRequests : loader(request)
  \/ \E i \in 1..Len(inflight) : loaderResume(i)
  \/ \E request \in SessionRequests, form \in ToggleForms : admin(request, form, TRUE)
  \/ \E i \in 1..Len(inflight) : adminConfig(i)
  \/ \E i \in 1..Len(inflight) : adminWrite(i)

SpecIndex == Init /\ [][NextIndex]_vars

\* Registration and login over the emulator that setupMockData fills.
NextLogin ==
  \/ \E form \in RegisterForms : register(form)
  \/ \E i \in 1..Len(inflight) : registerResume(i, Now)
  \/ \E form \in LoginForms : login(form)
  \/ setupMockData(Now)
  \/ \E i \in 1..Len(inflight) : setupMockDataResume(i)

SpecLogin == Init /\ [][NextLogin]_vars

\* testUser of addTestUser
DevUser ==
  ObjectLiteral(<<Member(IdName, Str(TestUserId)), Member(EmailName, Str(TestEmail)),
                  Member(PasswordName, Str(TestPassword)),
                  Member(NameName, Str(T(<<"T", "e", "s", "t", " ", "U", "s", "e", "r">>)))>>)

\* addTestUser(env): it writes only where env has no boltKV, and then to the
\* one store, through mockKV
addTestUser(hasKV) ==
  /\ call' = [op |-> "addTestUser", hasKV |-> hasKV]
  /\ ret' = Undefined
  /\ IF hasKV THEN UNCHANGED <<memoryStore, last>>
     ELSE kvPut(UserKey(TestEmail), JsonStringify(DevUser))
  /\ UNCHANGED inflight

\* getUser(request, env), as the routes call it
getUser(request) ==
  /\ call' = [op |-> "getUser", request |-> request]
  /\ ret' = GetUser(memoryStore, request)
  /\ UNCHANGED <<memoryStore, inflight, last>>

\* The sessions that a login can create, and none.
LoginSessions ==
  {Request(Undefined), Request(Str(TestUserId)), Request(Str(UserKey(TestEmail))),
   Request(Str(UserKey(ToLowerCase(EmailA))))}

\* Login, and getUser on the requests that carry its sessions, over the
\* records of register, setupMockData and addTestUser.
NextSession ==
  \/ \E form \in RegisterForms : register(form)
  \/ \E i \in 1..Len(inflight) : registerResume(i, Now)
  \/ \E form \in LoginForms : login(form)
  \/ setupMockData(Now)
  \/ \E i \in 1..Len(inflight) : setupMockDataResume(i)
  \/ \E hasKV \in BOOLEAN : addTestUser(hasKV)
  \/ \E request \in LoginSessions : getUser(request)

SpecSession == Init /\ [][NextSession]_vars

\* The requests that one route serves at a time in the specifications of
\* concurrent requests.
MaxRacing == 2

\* Two forms for one email, in two cases and with two first names, and one
\* for another email.
RacingForms ==
  {RegisterForm(EmailA, Secret, <<Cp("A")>>, <<Cp("B")>>),
   RegisterForm(ToLowerCase(EmailA), Secret, <<Cp("C")>>, <<Cp("B")>>),
   RegisterForm(EmailB, Secret, <<Cp("A")>>, <<Cp("B")>>)}

\* Concurrent register requests.
NextRegister ==
  \/ \E form \in RacingForms : registerWithin(form, MaxRacing)
  \/ \E i \in 1..Len(inflight) : registerResume(i, Now)

SpecRegister == Init /\ [][NextRegister]_vars

\* Two keys, every decode mode of get and getWithMetadata, puts of texts and
\* of a stream, deletes of present and absent keys, list.
FrameValues == {Str(<<>>), Str(IdOne), SplitStream}
NextFrame ==
  \/ \E key \in OpsKeys, options \in GetOptions : get(key, options)
  \/ \E key \in OpsKeys, options \in GetOptions : getWithMetadata(key, options)
  \/ \E key \in OpsKeys, value \in FrameValues : put(key, value, Undefined)
  \/ \E i \in 1..Len(inflight) : putRead(i)
  \/ \E i \in 1..Len(inflight) : putDone(i)
  \/ \E key \in OpsKeys : delete(key)
  \/ list(ListOptions(Undefined, Undefined))

SpecFrame == Init /\ [][NextFrame]_vars

\* new MockKV(id): an instance holds its _id and nothing else; the id is
\* 'boltKV' where none is given.
DefaultId == T(<<"b", "o", "l", "t", "K", "V">>)
MockKV(id) == [id |-> id]

\* The default instance that the module exports, and the environment of
\* createMockEnv, whose two bindings are that instance.
mockKV == MockKV(DefaultId)
CreateMockEnv == [boltKV |-> mockKV, AUTH_USERS |-> mockKV]

\* EntryKey with a bug: every instance keeps its entries under its own _id.
EntryKeyPerInstance(instance, key) == instance.id \o <<Cp(":")>> \o key

\* The key of the module's Map under which a method of an instance reads
\* and writes the entry of key: the key itself, _id is never read.
EntryKey(instance, key) == key

\* A way to reach an instance: by the default export, by a binding of the
\* environment, or by constructing one.
Handle(binding, instance) == [binding |-> binding, instance |-> instance]
Handles ==
  {Handle("mockKV", mockKV),
   Handle("boltKV", CreateMockEnv.boltKV),
   Handle("AUTH_USERS", CreateMockEnv.AUTH_USERS),
   Handle("new MockKV", MockKV(T(<<"x">>)))}

\* new MockKV(id)
construct(id) ==
  /\ call' = [op |-> "MockKV", id |-> id]
  /\ ret' = MockKV(id)
  /\ UNCHANGED <<memoryStore, inflight, last>>

\* handle.get(key)
handleGet(handle, key) ==
  /\ call' = [op |-> "get", handle |-> handle, key |-> key]
  /\ ret' = Get(memoryStore, EntryKey(handle.instance, key), NoOptions)
  /\ UNCHANGED <<memoryStore, inflight, last>>

\* handle.put(key, value) of a text
handlePut(handle, key, value) ==
  /\ memoryStore' = PutEffect(memoryStore, EntryKey(handle.instance, key),
                              ValueToStore(value), Undefined)
  /\ call' = [op |-> "put", handle |-> handle, key |-> key, value |-> value]
  /\ ret' = Undefined
  /\ last' = Record(last, key, [op |-> "put", text |-> WrittenText(value), handle |-> handle])
  /\ UNCHANGED inflight

\* handle.delete(key)
handleDelete(handle, key) ==
  /\ memoryStore' = MapDelete(memoryStore, EntryKey(handle.instance, key))
  /\ call' = [op |-> "delete", handle |-> handle, key |-> key]
  /\ ret' = Undefined
  /\ last' = Record(last, key, [op |-> "delete", handle |-> handle])
  /\ UNCHANGED inflight

\* The operations through every handle, and constructions in between.
NextShared ==
  \/ \E handle \in Handles, key \in OpsKeys : handleGet(handle, key)
  \/ \E handle \in Handles, key \in OpsKeys, text \in {EAcute, IdOne} :
       handlePut(handle, key, Str(text))
  \/ \E handle \in Handles, key \in OpsKeys : handleDelete(handle, key)
  \/ \E id \in {DefaultId, T(<<"x">>)} : construct(id)

SpecShared == Init /\ [][NextShared]_vars

DomainY == T(<<"y", ".", "i", "o">>)
RacingAdminForms ==
  {AdminForm("add_domain", Str(DomainX), Null),
   AdminForm("add_domain", Str(DomainY), Null),
   AdminForm("remove_domain", Str(DomainX), Null),
   ToggleOn}

\* Concurrent admin requests of one registered user.
NextAdmin ==
  \/ register(RegisterForm(EmailA, Secret, <<Cp("A")>>, <<Cp("B")>>))
  \/ \E i \in 1..Len(inflight) : registerResume(i, Now)
  \/ \E form \in RacingAdminForms :
       adminWithin(Request(Str(UserKey(ToLowerCase(EmailA)))), form, TRUE, MaxRacing)
  \/ \E i \in 1..Len(inflight) : adminConfig(i)
  \/ \E i \in 1..Len(inflight) : adminWrite(i)

SpecAdmin == Init /\ [][NextAdmin]_vars

\* The least number of domains in a body of the auth-config API.
MinDomains == 1

\* authConfigSchema.safeParse(data).success
AuthConfigValid(data) ==
  /\ data.kind = "object"
  /\ Prop(data, AllowedDomainsName).kind = "array"
  /\ \A n \in 1..Len(Prop(data, AllowedDomainsName).items) :
       Prop(data, AllowedDomainsName).items[n].kind = "string"
  /\ Len(Prop(data, AllowedDomainsName).items) >= MinDomains

\* result.data: the keys of the schema, every other key of the body stripped
ResultData(data) ==
  ObjectLiteral(<<Member(AllowedDomainsName, Prop(data, AllowedDomainsName))>>)

ApiCall(entry) ==
  [op |-> "authConfig", request |-> entry.request, method |-> entry.method,
   body |-> entry.body, hasKV |-> entry.hasKV]

\* authConfig with a bug: the lookup of getUser and its 401 are missing.
authConfigUnchecked(request, method, body, hasKV) ==
  /\ call' = [op |-> "authConfig", request |-> request, method |-> method,
              body |-> body, hasKV |-> hasKV]
  /\ IF method # "POST" THEN
       /\ ret' = Json(405)
       /\ UNCHANGED <<memoryStore, inflight, last>>
     ELSE
       /\ Len(inflight) < MaxInflight
       /\ inflight' = Append(inflight, [handler |-> "authConfig", request |-> request,
                                        method |-> method, body |-> body, hasKV |-> hasKV])
       /\ ret' = Pending
       /\ UNCHANGED <<memoryStore, last>>

\* The action of the auth-config API, up to its 401 or 405 or to
\* "await request.json()"
authConfig(request, method, body, hasKV) ==
  /\ call' = [op |-> "authConfig", request |-> request, method |-> method,
              body |-> body, hasKV |-> hasKV]
  /\ IF GetUser(memoryStore, request) = Null THEN
       /\ ret' = Json(401)
       /\ UNCHANGED <<memoryStore, inflight, last>>
     ELSE IF method # "POST" THEN
       /\ ret' = Json(405)
       /\ UNCHANGED <<memoryStore, inflight, last>>
     ELSE
       /\ Len(inflight) < MaxInflight
       /\ inflight' = Append(inflight, [handler |-> "authConfig", request |-> request,
                                        method |-> method, body |-> body, hasKV |-> hasKV])
       /\ ret' = Pending
       /\ UNCHANGED <<memoryStore, last>>

\* The action of the auth-config API from the parsed body on; a body that
\* is no JSON makes request.json() throw, which the catch answers with 500
authConfigResume(i) ==
  /\ inflight[i].handler = "authConfig"
  /\ \E data \in {JsonParse(inflight[i].body)} :
       IF ~data.ok THEN
         /\ Return(i, ApiCall(inflight[i]), Json(500))
         /\ UNCHANGED <<memoryStore, last>>
       ELSE IF ~AuthConfigValid(data.val) THEN
         /\ Return(i, ApiCall(inflight[i]), Json(400))
         /\ UNCHANGED <<memoryStore, last>>
       ELSE IF inflight[i].hasKV THEN
         /\ kvPut(ConfigKey, JsonStringify(ResultData(data.val)))
         /\ Return(i, ApiCall(inflight[i]), Json(200))
       ELSE
         /\ Return(i, ApiCall(inflight[i]), Json(500))
         /\ UNCHANGED <<memoryStore, last>>

\* Bodies of a POST: a whitelist with a requireAuth beside it, an empty
\* whitelist, and a text that is no JSON.
BodyY ==
  JsonStringify(ObjectLiteral(<<Member(AllowedDomainsName, Arr(<<Str(DomainY)>>)),
                                Member(RequireAuthName, Bool(TRUE))>>))
BodyNone == JsonStringify(ObjectLiteral(<<Member(AllowedDomainsName, Arr(<<>>))>>))
NoJson == <<Cp("{")>>
Bodies == {BodyY, BodyNone, NoJson}

ConfigForms == {AdminForm("add_domain", Str(DomainX), Null), ToggleOn}

\* The admin action and the auth-config API, for requests with and without
\* a session.
NextConfig ==
  \/ register(RegisterForm(EmailA, Secret, <<Cp("A")>>, <<Cp("B")>>))
  \/ \E i \in 1..Len(inflight) : registerResume(i, Now)
  \/ \E request \in SessionRequests, form \in ConfigForms : admin(request, form, TRUE)
  \/ \E i \in 1..Len(inflight) : adminConfig(i)
  \/ \E i \in 1..Len(inflight) : adminWrite(i)
  \/ \E request \in SessionRequests, body \in Bodies : authConfig(request, "POST", body, TRUE)
  \/ authConfig(Request(Str(UserKey(ToLowerCase(EmailA)))), "GET", BodyY, TRUE)
  \/ \E i \in 1..Len(inflight) : authConfigResume(i)

SpecConfig == Init /\ [][NextConfig]_vars

(***************************************************************************)
(* Properties                                                              *)
(***************************************************************************)

\* The names of a list result, as a sequence and as a set.
Names(result) == [i \in 1..Len(result.keys) |-> result.keys[i].name]
NameSet(result) == {result.keys[i].name : i \in 1..Len(result.keys)}

\* What the history says get(key) is to return: the text of the last put, or
\* null after a delete or when the key was never put.
Expected(key) ==
  IF key \in DOMAIN last /\ last[key].op = "put" THEN Str(last[key].text) ELSE Null

\* C1: after any sequence of put and delete calls, get(k) with no decode mode
\* returns the text of the most recent put to exactly k that no delete(k)
\* followed, and null when there is none; the history of another key plays no
\* part in it.
C1_GetReturnsLastPut ==
  /\ \A k \in Keys : Get(memoryStore, k, NoOptions) = Expected(k)
  /\ (call.op = "get" /\ call.options = NoOptions) => ret = Expected(call.key)

\* get("u:a") returns the text put there, after "u:b" was deleted and with
\* another text under "c".
C1_Witness ==
  /\ call.op = "get" /\ call.key = KeyA /\ call.options = NoOptions
  /\ ret = Str(IdOne)
  /\ KeyB \in DOMAIN last /\ last[KeyB].op = "delete"
  /\ KeyC \in DOMAIN last /\ last[KeyC] = [op |-> "put", text |-> <<>>]

\* C2: put(k, v) of a text v, the empty text included, followed at once by
\* get(k) with no decode mode, returns exactly v.
C2_TextRoundTrip ==
  [][(/\ call.op = "put" /\ call.value.kind = "string" /\ ret = Undefined
      /\ call'.op = "get" /\ call'.key = call.key /\ call'.options = NoOptions)
     => ret' = Str(call.value.text)]_vars

\* get returned the empty text: the key holds it.
C2_Witness ==
  /\ call.op = "get" /\ call.options = NoOptions
  /\ ret = Str(<<>>)
  /\ last[call.key] = [op |-> "put", text |-> <<>>]

\* C3: from delete(k) until the next put(k), get(k) returns null in every
\* decode mode and no list result names k.
C3_DeletedKeyIsAbsent ==
  \A k \in DOMAIN last :
    last[k].op = "delete" =>
      /\ \A options \in GetOptions : Get(memoryStore, k, options) = Null
      /\ \A prefix \in Prefixes, limit \in Limits :
           k \notin NameSet(List(memoryStore, ListOptions(prefix, limit)))
      /\ (call.op = "get" /\ call.key = k) => ret = Null
      /\ call.op = "list" => k \notin NameSet(ret)

\* get("u:a", "json") after delete("u:a"), with other keys in the store.
C3_Witness ==
  /\ call.op = "get" /\ call.key = KeyA /\ call.options = StringOption("json")
  /\ KeyA \in DOMAIN last /\ last[KeyA].op = "delete"
  /\ ret = Null
  /\ Len(memoryStore) = 2

\* The decode mode an options argument requests, as a bare string or as the
\* type field of an object.
Requests(options, mode) ==
  options.form \in {"string", "object"} /\ options.type = mode

\* The last call was a get of a key the store holds.
GotPresent == call.op = "get" /\ MapHas(memoryStore, call.key)

\* C4: for a present key whose text is not valid JSON, the empty text
\* included, get in structured mode returns null.
C4_MalformedJsonIsNull ==
  (/\ GotPresent
   /\ Requests(call.options, "json")
   /\ ~JsonParse(MapGet(memoryStore, call.key)).ok)
  => ret = Null

\* C5: for a present key the decode mode alone chooses the shape of the
\* result, whatever the text and however the mode is passed: the parsed
\* structure (null when there is none) for "json", a byte buffer for
\* "arrayBuffer", a stream of one chunk for "stream", the text otherwise.
C5_ShapeByModeAlone ==
  GotPresent =>
    LET value == MapGet(memoryStore, call.key) IN
    IF Requests(call.options, "json") THEN ret = ParseOrNull(value)
    ELSE IF Requests(call.options, "arrayBuffer") THEN ret.kind = "ArrayBuffer"
    ELSE IF Requests(call.options, "stream") THEN
      ret.kind = "ReadableStream" /\ Len(ret.chunks) = 1
    ELSE ret = Str(value)

\* C6: for a key whose text is valid JSON, get in structured mode returns the
\* parsed value, the same for "json" and for {type: "json"}.
C6_ValidJsonIsParsed ==
  (/\ GotPresent
   /\ Requests(call.options, "json")
   /\ JsonParse(MapGet(memoryStore, call.key)).ok)
  => /\ ret = JsonParse(MapGet(memoryStore, call.key)).val
     /\ ret = Get(memoryStore, call.key, StringOption("json"))
     /\ ret = Get(memoryStore, call.key, ObjectOption("json"))

\* get(k, "json") of the text {"id":1} returned the object with id = 1.
C6_Witness ==
  /\ GotPresent
  /\ call.options = StringOption("json")
  /\ MapGet(memoryStore, call.key) = IdOne
  /\ ret = Obj([n \in {T(<<"i", "d">>)} |-> Num(1)])

\* C7: put(k, b) of a byte buffer b, followed at once by get(k, "arrayBuffer"),
\* returns a byte buffer whose decoded text is the decoded text of b.
C7_BufferRoundTrip ==
  [][(/\ call.op = "put" /\ call.value.kind = "ArrayBuffer"
      /\ call'.op = "get" /\ call'.key = call.key
      /\ call'.options = StringOption("arrayBuffer"))
     => /\ ret'.kind = "ArrayBuffer"
        /\ Utf8Decode(ret'.bytes) = Utf8Decode(call.value.bytes)]_vars

\* The prefix a list call asks for (the empty text when it gives none), and
\* the keys of the store that start with it: in store order, and as a set.
PrefixText(options) ==
  IF options.prefix.kind = "string" THEN options.prefix.text ELSE <<>>
MatchingSeq(options) ==
  SelectSeq(MapKeys(memoryStore), LAMBDA k : StartsWith(k, PrefixText(options)))
Matching(options) ==
  {memoryStore[i].key : i \in {j \in 1..Len(memoryStore) :
                                 StartsWith(memoryStore[j].key, PrefixText(options))}}

Min(a, b) == IF a < b THEN a ELSE b

\* The last call was a list that gave no limit.
ListedAll == call.op = "list" /\ call.options.limit = Undefined

\* C8 as stated: list with a prefix and no limit names exactly the keys that
\* start with the prefix, each once, in every store.
C8_ListExactlyMatching ==
  ListedAll =>
    /\ NameSet(ret) = Matching(call.options)
    /\ Len(ret.keys) = Cardinality(Matching(call.options))

\* C8 as amended: list with a prefix and no limit names only keys that start
\* with the prefix, each once: all of them when at most 1000 keys do, and
\* 1000 of them when more do.
C8_ListMatchingUpToDefault ==
  ListedAll =>
    /\ NameSet(ret) \subseteq Matching(call.options)
    /\ Len(ret.keys) = Cardinality(NameSet(ret))
    /\ IF Cardinality(Matching(call.options)) <= DefaultLimit
       THEN NameSet(ret) = Matching(call.options)
       ELSE Len(ret.keys) = DefaultLimit

\* list("u:") with no limit in a store where more than 1000 keys start with
\* "u:" returned 1000 names.
C8_Witness ==
  /\ ListedAll
  /\ call.options.prefix = Str(T(<<"u", ":">>))
  /\ Cardinality(Matching(call.options)) > DefaultLimit
  /\ Len(ret.keys) = DefaultLimit

\* C9: list returns the first n matching keys in store order (all of them
\* when fewer match), n being the requested limit, 0 included, and 1000 when
\* no limit is given.
C9_ListFirstN ==
  call.op = "list" =>
    LET n == IF call.options.limit = Undefined THEN DefaultLimit
             ELSE call.options.limit.num
        m == MatchingSeq(call.options)
    IN /\ Len(ret.keys) <= n
       /\ Names(ret) = SubSeq(m, 1, Min(n, Len(m)))

\* list with limit 0 on a store that holds keys returned no name.
C9_Witness ==
  /\ call.op = "list"
  /\ call.options.limit = Num(0)
  /\ Len(MatchingSeq(call.options)) > DefaultLimit
  /\ ret.keys = <<>>

\* C10: every list result is marked complete and carries no cursor, also when
\* the limit cut it short.
C10_ListAlwaysComplete ==
  call.op = "list" => ret.list_complete = TRUE /\ "cursor" \notin DOMAIN ret

\* list with limit 1 returned one of several matching keys.
C10_Witness ==
  /\ call.op = "list"
  /\ call.options.limit = Num(1)
  /\ Len(ret.keys) = 1
  /\ Cardinality(Matching(call.options)) > 1
  /\ ret.list_complete = TRUE

(***************************************************************************)
(* getWithMetadata, put options, failures, concurrency, streams            *)
(***************************************************************************)

\* C11: getWithMetadata(key, options) resolves to a record whose value is
\* what get(key, options) returns in the state it is called in and whose
\* metadata is null, and it leaves the store as it was.
C11_GetWithMetadataIsGet ==
  [][call'.op = "getWithMetadata" =>
       /\ ret'.value = Get(memoryStore, call'.key, call'.options)
       /\ ret'.metadata = Null
       /\ memoryStore' = memoryStore]_vars

\* getWithMetadata in json mode on a key that holds a text that is no JSON
C11_Witness ==
  /\ call.op = "getWithMetadata"
  /\ call.options = StringOption("json")
  /\ MapHas(memoryStore, call.key)
  /\ MapGet(memoryStore, call.key) = EAcute
  /\ ret.value = Null

\* C12: a put that returns has replaced the value of its key by the text of
\* its value whatever its options are, and every step that completes no put
\* or delete on a key leaves the text of the key's last put readable.
C12_PutIgnoresOptions ==
  [][/\ call'.op = "put" /\ ret' = Undefined =>
          memoryStore' = MapSet(memoryStore, call'.key, WrittenText(call'.value))
     /\ \A k \in DOMAIN last :
          last[k].op = "put" /\ k \in DOMAIN last' /\ last'[k] = last[k] =>
            Get(memoryStore', k, NoOptions) = Str(last[k].text)]_vars

\* a value put with an expiry that has passed is read after a delete of
\* another key
C12_Witness ==
  /\ KeyA \in DOMAIN last /\ KeyC \in DOMAIN last
  /\ last[KeyA] = [op |-> "put", text |-> EAcute, options |-> Expiration(0)]
  /\ last[KeyC].op = "delete"
  /\ call.op = "get" /\ call.key = KeyA
  /\ ret = Str(EAcute)

\* C13: no operation of the emulator ends with its promise rejected.
C13_NoOperationRaises ==
  call.op \in {"get", "put", "delete", "list", "getWithMetadata"} => ret # Rejected

\* C14 as stated: a put of a text that returns while a put of a stream on
\* the same key is suspended is the later call of the two, so when the put
\* of the stream completes next the key still reads as the text.
C14_LaterCallWins ==
  [][/\ call.op = "put" /\ call.value.kind = "string" /\ ret = Undefined
     /\ call'.op = "put" /\ call'.value.kind = "ReadableStream" /\ ret' = Undefined
     /\ call'.key = call.key
     => Get(memoryStore', call.key, NoOptions) = Str(call.value.text)]_vars

\* C14: every step leaves the store alone or applies one whole put or
\* delete to it, the one whose promise resolves in that step; a put of a
\* text or buffer is applied in the step it is called in, a put of a stream
\* is suspended first and applied when it completes.
C14_SerialInStoreOrder ==
  [][/\ \/ memoryStore' = memoryStore
        \/ /\ call'.op = "put" /\ ret' = Undefined
           /\ memoryStore' = MapSet(memoryStore, call'.key, WrittenText(call'.value))
        \/ /\ call'.op = "delete"
           /\ memoryStore' = MapDelete(memoryStore, call'.key)
     /\ call'.op = "put" /\ call' # call =>
          IF call'.value.kind = "ReadableStream"
          THEN ret' = Pending \/ Len(inflight') < Len(inflight)
          ELSE ret' = Undefined]_vars

\* a put of a text has returned while a put of a stream on the same key,
\* called before it, has read a chunk and is suspended
C14_Witness ==
  /\ call.op = "put" /\ call.value.kind = "string" /\ ret = Undefined
  /\ Len(inflight) > 0
  /\ inflight[1].key = call.key
  /\ inflight[1].chunks # <<>>
  /\ StreamEnd(inflight[1].value) = "close"

\* The bytes of the chunks one after another, joined from the left.
RECURSIVE Concatenation(_)
Concatenation(chunks) ==
  IF Len(chunks) = 0 THEN <<>>
  ELSE Concatenation(SubSeq(chunks, 1, Len(chunks) - 1)) \o chunks[Len(chunks)]

\* The step in which a put of a stream completes.
StreamPutCompletes ==
  /\ call'.op = "put" /\ call'.value.kind = "ReadableStream" /\ ret' = Undefined
  /\ Len(inflight') < Len(inflight)

\* C15: a put of a stream that delivered its chunks and closed stores the
\* text decoded from the chunks joined in the order of delivery, the text a
\* put of the joined bytes as a buffer stores; the steps before, the call and
\* every read, leave the store as it was.
C15_StreamStoredOnceInOrder ==
  [][/\ StreamPutCompletes =>
          /\ memoryStore' =
               MapSet(memoryStore, call'.key, Utf8Decode(Concatenation(call'.value.chunks)))
          /\ memoryStore' =
               MapSet(memoryStore, call'.key,
                      ValueToStore(ArrayBuffer(Concatenation(call'.value.chunks))))
     /\ inflight' # inflight /\ Len(inflight') >= Len(inflight) =>
          memoryStore' = memoryStore]_vars

\* the put of the stream that splits U+00E9 over two chunks has completed
C15_Witness ==
  /\ call.op = "put" /\ call.value = SplitStream /\ ret = Undefined
  /\ MapGet(memoryStore, call.key) = EAcute

\* A put of this stream is suspended.
Suspended(stream) == \E i \in 1..Len(inflight) : inflight[i].value = stream
\* A put of this stream has stored its text and returned.
Completed(stream) ==
  /\ call.op = "put" /\ call.value = stream /\ ret = Undefined
  /\ Get(memoryStore, call.key, NoOptions) = Str(WrittenText(stream))

Whitelist(store) ==
  LET allowedDomains == Prop(AuthConfig(store, TRUE), AllowedDomainsName) IN
  IF allowedDomains.kind # "array" THEN <<>>
  ELSE [n \in 1..Len(allowedDomains.items) |-> allowedDomains.items[n].text]

\* C17: a register action that ends with a session while the stored
\* whitelist is not empty has an email whose domain the whitelist allows.
C17_RegisterHonoursWhitelist ==
  [][call'.op = "register" /\ "session" \in DOMAIN ret' /\ Whitelist(memoryStore) # <<>> =>
       IsEmailDomainAllowed(ToLowerCase(call'.form.email), Whitelist(memoryStore))]_vars

\* The key that the session of the request names holds a record.
ResolvesToUser(store, request) ==
  /\ request.userId.kind = "string"
  /\ MapHas(store, request.userId.text)
  /\ ToBoolean(ParseOrNull(MapGet(store, request.userId.text)))

\* requireAuth of the stored config is true
LoginRequired(store) ==
  /\ MapHas(store, ConfigKey)
  /\ Prop(ParseOrNull(MapGet(store, ConfigKey)), RequireAuthName) = Bool(TRUE)

\* C18: the index loader answers a request whose session resolves to no
\* stored user, while the stored config requires login, with a redirect to
\* /login, and it answers with the page only when the config does not
\* require login or the session resolves to a stored user.
C18_LoaderRequiresLogin ==
  call.op = "loader" /\ ret # Pending =>
    /\ LoginRequired(memoryStore) /\ ~ResolvesToUser(memoryStore, call.request) =>
         ret = Redirect("/login")
    /\ ret = Page =>
         ~LoginRequired(memoryStore) \/ ResolvesToUser(memoryStore, call.request)

\* a request with the session of an email that never registered is sent to
\* /login once an admin has required login
C18_Witness ==
  /\ call.op = "loader"
  /\ call.request = Request(Str(UserKey(EmailB)))
  /\ ~MapHas(memoryStore, UserKey(EmailB))
  /\ LoginRequired(memoryStore)
  /\ ret = Redirect("/login")

\* A step in which the login action answers.
LoginAnswers == call'.op = "login" /\ <<call, ret>>' # <<call, ret>>

\* The record under 'user:' + the lowercased email of the form holds the
\* password of the form.
StoredPasswordIs(store, form) ==
  LET userKey == UserKey(ToLowerCase(form.email)) IN
  /\ MapHas(store, userKey)
  /\ Prop(ParseOrNull(MapGet(store, userKey)), PasswordName) = Str(form.password)

\* C19: the login action answers with a session only when the record under
\* 'user:' + the lowercased email holds the submitted password as its
\* password, it answers 400, 401 or 500 otherwise, and it leaves the store
\* as it was.
C19_LoginChecksPassword ==
  [][LoginAnswers =>
       /\ memoryStore' = memoryStore
       /\ IF "session" \in DOMAIN ret' THEN StoredPasswordIs(memoryStore, call'.form)
          ELSE ret'.status \in {400, 401, 500}]_vars

\* the test user of setupMockData has logged in with an email in another
\* case than the key's
C19_Witness ==
  /\ call.op = "login"
  /\ call.form.email # TestEmail
  /\ "session" \in DOMAIN ret
  /\ ret.session = Str(TestUserId)

\* The record that the register action wrote for this form is stored.
Registered(store, form) ==
  LET email == ToLowerCase(form.email)
      userKey == UserKey(email)
  IN /\ MapHas(store, userKey)
     /\ MapGet(store, userKey) =
          JsonStringify(UserData(userKey, email, form.firstName, form.lastName,
                                 form.password, Now))

\* C20: the login action answers a form with a session when the record
\* that the register action wrote for its email and password is stored.
C20_LoginAfterRegister ==
  [][/\ LoginAnswers
     /\ \E form \in RegisterForms :
          /\ ToLowerCase(form.email) = ToLowerCase(call'.form.email)
          /\ form.password = call'.form.password
          /\ Registered(memoryStore, form)
     => "session" \in DOMAIN ret']_vars

(***************************************************************************)
(* Sessions, registration races, config updates, frames, the one store     *)
(***************************************************************************)

\* The parsed record under 'user:' + the lowercased email of the form.
StoredUser(store, form) ==
  ParseOrNull(MapGet(store, UserKey(ToLowerCase(form.email))))

\* C21: getUser on a request whose session holds the id of a stored record
\* for which login succeeds (the userId that login puts in the session)
\* returns that record.
C21_SessionResolvesToUser ==
  [][call'.op = "getUser" /\ <<call, ret>>' # <<call, ret>> =>
       \A form \in LoginForms :
         /\ LoginValid(form.email, form.password)
         /\ StoredPasswordIs(memoryStore, form)
         /\ call'.request.userId = Prop(StoredUser(memoryStore, form), IdName)
         => ret' = StoredUser(memoryStore, form)]_vars

\* C22: a register action that answers while a record is stored under
\* 'user:' + its lowercased email answers 400 and leaves the store as it
\* was, so the record is written once and one request gets the session.
C22_RegisterNeverOverwrites ==
  [][/\ call'.op = "register" /\ ret' # Pending
     /\ <<call, ret, inflight>>' # <<call, ret, inflight>>
     /\ MapHas(memoryStore, UserKey(ToLowerCase(call'.form.email)))
     => ret' = Json(400) /\ memoryStore' = memoryStore]_vars

\* The domains that the stored config lists.
Listed(store) == {Whitelist(store)[n] : n \in 1..Len(Whitelist(store))}

\* C23: a domain that the stored config lists, as it does from the step in
\* which its add_domain answers success, is listed after every step but the
\* one in which a remove_domain for it answers.
C23_DomainStaysUntilRemoved ==
  [][\A d \in Listed(memoryStore) :
       d \in Listed(memoryStore') \/
         /\ call'.op = "admin" /\ ret' # Pending
         /\ call'.form.action = "remove_domain"
         /\ Trim(ToLowerCase(call'.form.domain.text)) = d]_vars

\* A step in which the admin action or the action of the auth-config API
\* starts on a request.
ConfigRequestStarts ==
  /\ call'.op \in {"admin", "authConfig"}
  /\ <<call, ret, inflight>>' # <<call, ret, inflight>>
  /\ inflight' = inflight \/ Len(inflight') > Len(inflight)

\* C24: the admin action and the action of the auth-config API answer a
\* request whose session resolves to no stored user with 401 and leave the
\* store as it was, whatever form or body it has; a step of theirs that
\* changes the store belongs to a request whose session resolves to a user.
C24_ConfigNeedsUser ==
  [][/\ ConfigRequestStarts /\ ~ResolvesToUser(memoryStore, call'.request) =>
          ret' = Json(401) /\ memoryStore' = memoryStore /\ inflight' = inflight
     /\ call'.op \in {"admin", "authConfig"} /\ memoryStore' # memoryStore =>
          ResolvesToUser(memoryStore, call'.request)]_vars

\* a POST of a whitelist with the session of an email that never registered
\* is answered 401 while another user's config is stored
C24_Witness ==
  /\ call.op = "authConfig" /\ call.method = "POST" /\ call.body = BodyY
  /\ call.request = Request(Str(UserKey(EmailB)))
  /\ ret = Json(401)
  /\ MapHas(memoryStore, ConfigKey)

\* C25: a POST to the auth-config API that answers success leaves
\* requireAuth of the stored config true if it was true and not true if it
\* was not, and with it the login requirement of the index loader; a
\* toggle_auth_requirement that answers success leaves the domains that the
\* stored config lists as they were.
C25_UpdateKeepsOtherField ==
  [][/\ call'.op = "authConfig" /\ ret' = Json(200) /\ memoryStore' # memoryStore =>
          LoginRequired(memoryStore') = LoginRequired(memoryStore)
     /\ (/\ call'.op = "admin" /\ ret' = Json(200) /\ memoryStore' # memoryStore
         /\ call'.form.action = "toggle_auth_requirement")
        => Whitelist(memoryStore') = Whitelist(memoryStore)]_vars

\* The key is present in both stores or in neither, with one value.
SameAt(store, other, key) ==
  /\ MapHas(store, key) = MapHas(other, key)
  /\ MapHas(store, key) => MapGet(store, key) = MapGet(other, key)

\* C26: a step in which a put or a delete returns leaves every other key as
\* it was; a delete of an absent key returns without an error and leaves
\* the store as it was; a step in which get, getWithMetadata or list return
\* leaves the store as it was, whatever their options are.
C26_OnlyTheKeyChanges ==
  [][/\ call'.op \in {"put", "delete"} =>
          \A k \in OpsKeys \ {call'.key} : SameAt(memoryStore, memoryStore', k)
     /\ call'.op = "delete" /\ ~MapHas(memoryStore, call'.key) =>
          memoryStore' = memoryStore /\ ret' = Undefined
     /\ call'.op \in {"get", "getWithMetadata", "list"} => memoryStore' = memoryStore]_vars

\* a delete of an absent key has returned and the other key still holds the
\* text of its stream
C26_Witness ==
  /\ call.op = "delete" /\ call.key = KeyC /\ ret = Undefined
  /\ KeyC \in DOMAIN last /\ last[KeyC].op = "delete"
  /\ memoryStore = <<[key |-> KeyA, value |-> EAcute]>>

\* C27: a get through any handle returns the text that the last put on its
\* key stored, through whichever handle that put went, and null where the
\* last operation on the key was a delete through any handle or there was
\* none; constructing an instance leaves the store as it was.
C27_OneStoreForAll ==
  [][/\ call'.op = "get" =>
          ret' = IF call'.key \in DOMAIN last /\ last[call'.key].op = "put"
                 THEN Str(last[call'.key].text)
                 ELSE Null
     /\ call'.op = "MockKV" => memoryStore' = memoryStore]_vars

\* a text put through the AUTH_USERS binding is read through an instance
\* constructed with another id
C27_Witness ==
  /\ call.op = "get" /\ call.handle.binding = "new MockKV"
  /\ call.handle.instance.id # DefaultId
  /\ call.key \in DOMAIN last
  /\ last[call.key].op = "put" /\ last[call.key].handle.binding = "AUTH_USERS"
  /\ ret = Str(IdOne)

====
